---- MODULE Spec2Model ----
(***************************************************************************)
(* Model of script.py: preprocess_data (the walk over the PR and GHI       *)
(* folders, the merge into data_dict, the sorted Series) and plot_pr_graph *)
(* (the derived columns and the summary statistics handed to the chart).   *)
(*                                                                         *)
(* Conventions                                                             *)
(*   - a measurement (PR, GHI) is an integer number of tenths: 73.9 is 739 *)
(*   - an optional number is a sequence: <<>> is None / NaN, <<v>> is v    *)
(*   - a mean is <<sum, count>> (the exact rational sum/count), or <<>>    *)
(*   - a calendar date is <<year, month, day>>                             *)
(*   - a budget is an integer number of 1/10 000 000: 73.9 is 739000000    *)
(***************************************************************************)
EXTENDS Integers, Sequences, FiniteSets, TLC

VARIABLES files, pending, curDir, data_dict, skipped, pc, df, exported, chart

vars == <<files, pending, curDir, data_dict, skipped, pc, df, exported, chart>>

-----------------------------------------------------------------------------
(* Bounds of the model *)

\* at most this many files lie under base_dir
MaxFiles == 3
\* longest Series handed to plot_pr_graph on its own
MaxRows == 35
\* longest repeating pattern of PR values in such a Series
MaxPat == 2

-----------------------------------------------------------------------------
(* Optional numbers *)

NaN == <<>>

Some(v) == <<v>>

IsNA(x) == x = <<>>

-----------------------------------------------------------------------------
(* Calendar dates *)

IsLeap(y) == (y % 4 = 0 /\ y % 100 # 0) \/ y % 400 = 0

DaysInMonth(y, m) ==
    IF m = 2 THEN (IF IsLeap(y) THEN 29 ELSE 28)
    ELSE IF m \in {4, 6, 9, 11} THEN 30 ELSE 31

\* datetime.strptime(file_name, "%Y-%m-%d") succeeds
ParsesAsDate(name) ==
    /\ name[1] \in 1..9999
    /\ name[2] \in 1..12
    /\ name[3] \in 1..DaysInMonth(name[1], name[2])

\* proleptic Gregorian day number of a date (days since 1970-01-01)
ToDays(date) ==
    LET y   == IF date[2] <= 2 THEN date[1] - 1 ELSE date[1]
        era == y \div 400
        yoe == y - era * 400
        mp  == IF date[2] > 2 THEN date[2] - 3 ELSE date[2] + 9
        doy == (153 * mp + 2) \div 5 + date[3] - 1
        doe == yoe * 365 + yoe \div 4 - yoe \div 100 + doy
    IN  era * 146097 + doe - 719468

\* the date of a day number
FromDays(z) ==
    LET s   == z + 719468
        era == s \div 146097
        doe == s - era * 146097
        yoe == (doe - doe \div 1460 + doe \div 36524 - doe \div 146096) \div 365
        doy == doe - (365 * yoe + yoe \div 4 - yoe \div 100)
        mp  == (5 * doy + 2) \div 153
        d   == doy - (153 * mp + 2) \div 5 + 1
        m   == IF mp < 10 THEN mp + 3 ELSE mp - 9
        y   == yoe + era * 400
    IN  <<IF m <= 2 THEN y + 1 ELSE y, m, d>>

\* date - pd.Timedelta(days=n)
MinusDays(date, n) == FromDays(ToDays(date) - n)

\* date.__lt__: the order sort_values("Date") and max() use
DateLess(a, b) ==
    \/ a[1] < b[1]
    \/ a[1] = b[1] /\ a[2] < b[2]
    \/ a[1] = b[1] /\ a[2] = b[2] /\ a[3] < b[3]

-----------------------------------------------------------------------------
(* The .csv files under base_dir (the loop passes over any other file) *)

Folders == {"PR", "GHI"}

\* the sub-folders of each of PR and GHI
Dirs == {1, 2}

\* file names (without ".csv"): two dates and one that strptime rejects
FileNames == {<<2019, 7, 1>>, <<2020, 7, 2>>, <<2019, 2, 30>>}

\* what pd.read_csv makes of a file: it raises (readable = FALSE), or the
\* cells of the numeric columns, flattened, a missing cell being NaN
Contents ==
    { [readable |-> FALSE, cells |-> <<>>],
      [readable |-> TRUE,  cells |-> <<NaN>>],
      [readable |-> TRUE,  cells |-> <<Some(700)>>],
      [readable |-> TRUE,  cells |-> <<NaN, Some(800), Some(700)>>] }

Paths == [folder : Folders, dir : Dirs, name : FileNames]

\* the content of a file whose name does not parse is never read
NoContent == [readable |-> FALSE, cells |-> <<>>]

\* the files at the paths ps, with the contents c
FilesAt(ps, c) ==
    { [folder |-> p.folder, dir |-> p.dir, name |-> p.name, content |-> c[p]] : p \in ps }

-----------------------------------------------------------------------------
(* preprocess_data *)

\* value[~pd.isna(value)]
DropNA(cells) == SelectSeq(cells, LAMBDA c : ~IsNA(c))

\* value[0] if len(value) > 0 else None
FirstValue(cells) ==
    IF Len(DropNA(cells)) > 0 THEN Head(DropNA(cells)) ELSE NaN

\* the try block raises: strptime rejects the name, or read_csv fails
Raises(f) == ~ParsesAsDate(f.name) \/ ~f.content.readable

HasDate(dict, date) == \E i \in 1..Len(dict) : dict[i].date = date

\* data_dict.setdefault(date, {}): a new date is inserted last
SetDefault(dict, date) ==
    IF HasDate(dict, date) THEN dict
    ELSE Append(dict, [date |-> date, keys |-> {}, PR |-> NaN, GHI |-> NaN])

\* data_dict.setdefault(date, {})[folder] = value
StoreValue(dict, date, folder, value) ==
    [i \in 1..Len(SetDefault(dict, date)) |->
        IF SetDefault(dict, date)[i].date = date
        THEN [SetDefault(dict, date)[i] EXCEPT !.keys = @ \cup {folder}, ![folder] = value]
        ELSE SetDefault(dict, date)[i]]

\* the body of the loop over the files: data_dict after one file
MergeFile(dict, f) ==
    IF Raises(f) THEN dict
    ELSE StoreValue(dict, f.name, f.folder, FirstValue(f.content.cells))

\* values.get(key)
Get(entry, key) == IF key \in entry.keys THEN entry[key] ELSE NaN

\* the rows built from data_dict.items(), in insertion order
Rows(dict) ==
    [i \in 1..Len(dict) |->
        [Date |-> dict[i].date, GHI |-> Get(dict[i], "GHI"), PR |-> Get(dict[i], "PR")]]

RECURSIVE InsertByDate(_, _)
InsertByDate(sorted, row) ==
    IF sorted = <<>> THEN <<row>>
    ELSE IF DateLess(row.Date, Head(sorted).Date) THEN <<row>> \o sorted
    ELSE <<Head(sorted)>> \o InsertByDate(Tail(sorted), row)

\* the rows left in the order of data_dict
SortByDate_unsorted(rows) == rows

RECURSIVE SortByDate(_)
\* df.sort_values("Date")
SortByDate(rows) ==
    IF rows = <<>> THEN <<>>
    ELSE InsertByDate(SortByDate(Tail(rows)), Head(rows))

\* os.walk: the PR folder is walked before the GHI folder, and the files of
\* one sub-folder are listed together; the order of the sub-folders and of
\* the files in one is the file system's
MayVisit(f) ==
    /\ f.folder = "PR" \/ \A g \in pending : g.folder # "PR"
    /\ \/ <<f.folder, f.dir>> = curDir
       \/ \A g \in pending : <<g.folder, g.dir>> # curDir

-----------------------------------------------------------------------------
(* plot_pr_graph *)

\* rolling(window=30)
window == 30

\* base = 73.9, in tenths
BudgetBase == 739

\* 1 - 0.008, in thousandths
DecayPerMille == 992

\* (date - start).days // 365
YearDays == 365

\* start = pd.Timestamp("2019-07-01")
BudgetStart == <<2019, 7, 1>>

\* the windows of the summary box, in days
AvgWindows == {7, 30, 60, 90, 365}

RECURSIVE Pow(_, _)
Pow(b, n) == IF n = 0 THEN 1 ELSE b * Pow(b, n - 1)

\* a PR value (tenths) in the unit of the budgets, 1/10 000 000
PRScaled(v) == v * 1000 * 1000

Max(a, b) == IF a >= b THEN a ELSE b

\* the difference of the calendar years
years_calendar(date) == Max(0, date[1] - BudgetStart[1])

\* years = max(0, (date - start).days // 365)
years(date) == Max(0, (ToDays(date) - ToDays(BudgetStart)) \div YearDays)

\* base * ((1 - 0.008) ** years), in 1/10 000 000: exact for years <= 2, that
\* is for the dates before 2022-06-30, which all the dates of the model are
get_budget(date) ==
    BudgetBase * Pow(DecayPerMille, years(date)) * Pow(1000, 2 - years(date))

\* the colour of a point, from its GHI (tenths)
get_color(ghi) ==
    IF IsNA(ghi) THEN "gray"
    ELSE IF ghi[1] < 20 THEN "navy"
    ELSE IF ghi[1] < 40 THEN "lightblue"
    ELSE IF ghi[1] < 60 THEN "orange"
    ELSE "brown"

RECURSIVE SumSeq(_)
SumSeq(xs) == IF xs = <<>> THEN 0 ELSE Head(xs)[1] + SumSeq(Tail(xs))

\* Series.mean(): the mean of the values that are not NaN, NaN if there is none
Mean(xs) ==
    IF DropNA(xs) = <<>> THEN NaN ELSE <<SumSeq(DropNA(xs)), Len(DropNA(xs))>>

PRColumn(d) == [i \in 1..Len(d) |-> d[i].PR]

\* a rolling mean with min_periods = 1
rolling_mean_min1(d, i) ==
    Mean(SubSeq(PRColumn(d), Max(1, i - window + 1), i))

\* rolling(window).mean() at row i: min_periods is the window; the mean of the
\* last `window` rows if all of them hold a value, NaN otherwise
rolling_mean(d, i) ==
    LET w == DropNA(SubSeq(PRColumn(d), Max(1, i - window + 1), i))
    IN  IF Len(w) >= window THEN <<SumSeq(w), Len(w)>> ELSE NaN

\* valid_df = df[df['PR'].notna()]
valid_df(d) == SelectSeq(d, LAMBDA r : ~IsNA(r.PR))

\* the count with >= for >
above_count_ge(d) ==
    Len(SelectSeq(valid_df(d), LAMBDA r : PRScaled(r.PR[1]) >= get_budget(r.Date)))

\* (valid_df['PR'] > valid_df['Budget_PR']).sum()
above_count(d) ==
    Len(SelectSeq(valid_df(d), LAMBDA r : PRScaled(r.PR[1]) > get_budget(r.Date)))

\* today = df['Date'].max(); d is sorted
today(d) == d[Len(d)].Date

\* the window with < for >
avg_before(d, days) ==
    Mean(PRColumn(SelectSeq(d, LAMBDA r : DateLess(r.Date, MinusDays(today(d), days)))))

\* df[df['Date'] > today - pd.Timedelta(days=days)]['PR'].mean()
avg(d, days) ==
    Mean(PRColumn(SelectSeq(d, LAMBDA r : DateLess(MinusDays(today(d), days), r.Date))))

\* f"{x:.1f}": the text of a mean, to one decimal (sum/count is in tenths)
Format1(m) ==
    IF IsNA(m) THEN [text |-> "nan", tenths |-> 0]
    ELSE LET q == m[1] \div m[2]
             r == m[1] % m[2]
         IN  [text |-> "number",
              tenths |-> IF 2 * r > m[2] \/ (2 * r = m[2] /\ q % 2 = 1) THEN q + 1 ELSE q]

\* the text of the points-above-budget line
Annotation(above, total) ==
    IF total > 0 THEN [text |-> "ratio", above |-> above, total |-> total]
    ELSE [text |-> "N/A", above |-> 0, total |-> 0]

NoChart == [rendered |-> FALSE]

\* what plot_pr_graph hands to the chart; d is the Series sorted by date
Chart(d) ==
    [rendered     |-> TRUE,
     Date         |-> [i \in 1..Len(d) |-> d[i].Date],
     PR           |-> PRColumn(d),
     PR_MA_30     |-> [i \in 1..Len(d) |-> rolling_mean(d, i)],
     Budget_PR    |-> [i \in 1..Len(d) |-> get_budget(d[i].Date)],
     Color        |-> [i \in 1..Len(d) |-> get_color(d[i].GHI)],
     above_count  |-> above_count(d),
     total_count  |-> Len(valid_df(d)),
     annotation   |-> Annotation(above_count(d), Len(valid_df(d))),
     pr_avg       |-> [n \in AvgWindows |-> avg(d, n)],
     pr_lifetime  |-> Mean(PRColumn(d)),
     avg_box      |-> [n \in AvgWindows |-> Format1(avg(d, n))],
     lifetime_box |-> Format1(Mean(PRColumn(d)))]

plot_pr_graph(d) == IF d = <<>> THEN NoChart ELSE Chart(SortByDate(d))

-----------------------------------------------------------------------------
(* The run of the script: preprocess_data, then plot_pr_graph *)

Init ==
    /\ \E ps \in SUBSET Paths :
          /\ Cardinality(ps) <= MaxFiles
          /\ \E c \in [ps -> Contents] :
                /\ \A p \in ps : ~ParsesAsDate(p.name) => c[p] = NoContent
                /\ files = FilesAt(ps, c)
    /\ pending = files
    /\ curDir = <<"PR", 0>>
    /\ data_dict = <<>>
    /\ skipped = {}
    /\ pc = "walk"
    /\ df = <<>>
    /\ exported = FALSE
    /\ chart = NoChart

\* one iteration of the loop over the files (the try block and its handler)
ProcessFile ==
    /\ pc = "walk"
    /\ \E f \in pending :
          /\ MayVisit(f)
          /\ pending' = pending \ {f}
          /\ curDir' = <<f.folder, f.dir>>
          /\ data_dict' = MergeFile(data_dict, f)
          /\ skipped' = IF Raises(f) THEN skipped \cup {f} ELSE skipped
    /\ UNCHANGED <<files, pc, df, exported, chart>>

\* after the walk: the rows, the empty check, the sort and the export
BuildSeries ==
    /\ pc = "walk"
    /\ pending = {}
    /\ df' = IF Rows(data_dict) = <<>> THEN <<>> ELSE SortByDate(Rows(data_dict))
    /\ exported' = (Rows(data_dict) # <<>>)
    /\ pc' = "returned"
    /\ UNCHANGED <<files, pending, curDir, data_dict, skipped, chart>>

\* plot_pr_graph(df)
PlotPrGraph ==
    /\ pc = "returned"
    /\ chart' = plot_pr_graph(df)
    /\ pc' = "done"
    /\ UNCHANGED <<files, pending, curDir, data_dict, skipped, df, exported>>

Next == ProcessFile \/ BuildSeries \/ PlotPrGraph

Spec == Init /\ [][Next]_vars

-----------------------------------------------------------------------------
(* plot_pr_graph on its own, on the Series preprocess_data can return *)

FirstDates == {<<2019, 6, 29>>, <<2019, 7, 1>>, <<2020, 6, 28>>}

\* a gap in the dates: <<the row it follows, its length in days>>
Gaps == {<<0, 0>>, <<2, 367>>, <<20, 9>>}

PRValues == {NaN, Some(500), Some(739), Some(800)}

RECURSIVE SeqsUpTo(_, _)
\* the non-empty sequences over S of length at most n
SeqsUpTo(S, n) ==
    IF n = 0 THEN {}
    ELSE { <<x>> : x \in S } \cup
         { Append(q, x) : q \in SeqsUpTo(S, n - 1), x \in S }

PRPatterns ==
    SeqsUpTo(PRValues, MaxPat) \cup {<<Some(800), Some(700), Some(739), Some(600)>>}

\* the GHI values of such a Series, repeated
GHICycle == <<NaN, Some(15), Some(35), Some(55), Some(65)>>

Cyclic(pat, i) == pat[((i - 1) % Len(pat)) + 1]

\* n rows on consecutive days from `first`, but for one gap
SeriesOf(n, first, gap, prs) ==
    [i \in 1..n |->
        [Date |-> FromDays(ToDays(first) + (i - 1) + (IF i > gap[1] THEN gap[2] ELSE 0)),
         GHI  |-> Cyclic(GHICycle, i),
         PR   |-> Cyclic(prs, i)]]

\* the data_dict a Series comes from
DictOf(d) ==
    [i \in 1..Len(d) |->
        [date |-> d[i].Date, keys |-> {"PR", "GHI"}, PR |-> d[i].PR, GHI |-> d[i].GHI]]

InitPlot ==
    /\ \E n \in 0..MaxRows, first \in FirstDates, gap \in Gaps, prs \in PRPatterns :
          df = SeriesOf(n, first, gap, prs)
    /\ files = {}
    /\ pending = {}
    /\ curDir = <<"PR", 0>>
    /\ data_dict = DictOf(df)
    /\ skipped = {}
    /\ pc = "returned"
    /\ exported = (df # <<>>)
    /\ chart = NoChart

NextPlot == PlotPrGraph

SpecPlot == InitPlot /\ [][NextPlot]_vars

-----------------------------------------------------------------------------
(* The claims *)

Returned == pc \in {"returned", "done"}

Plotted == pc = "done" /\ chart.rendered

\* a file the specification calls skippable: its name is no date, or its
\* content yields no numeric value
Skippable(f) ==
    \/ ~ParsesAsDate(f.name)
    \/ ~f.content.readable
    \/ \A k \in 1..Len(f.content.cells) : IsNA(f.content.cells[k])

\* C1: the returned Series has strictly ascending dates (so no two records
\* share a date)
C1_StrictlyAscending ==
    Returned => \A i \in 1..(Len(df) - 1) : DateLess(df[i].Date, df[i + 1].Date)

\* two dates merged, the later one met first
C1_Witness ==
    /\ pc = "returned"
    /\ Len(df) = 2
    /\ data_dict[1].date = <<2020, 7, 2>>
    /\ data_dict[2].date = <<2019, 7, 1>>

\* C2: every record of the returned Series has at least one of GHI and PR
\* defined
C2_NoAllMissingRecord ==
    Returned => \A i \in 1..Len(df) : ~IsNA(df[i].GHI) \/ ~IsNA(df[i].PR)

\* C3: processing a skippable file leaves the date-to-record mapping as it was
C3_SkippedFileChangesNothing ==
    [][\A f \in pending :
          (pending' = pending \ {f} /\ Skippable(f)) => data_dict' = data_dict]_vars

\* C4: when every file is skippable (or there is none) the returned Series is
\* empty, nothing is exported and nothing is derived or rendered; the chart is
\* rendered only from a Series that is not empty
C4_EmptyShortCircuit ==
    /\ (Returned /\ \A f \in files : Skippable(f)) =>
          /\ df = <<>>
          /\ ~exported
          /\ ~chart.rendered
    /\ Plotted => df # <<>>

\* C5 as stated: for a Series of one record the 7-day trailing average is
\* undefined
C5_SingleRecordUndefined ==
    (Plotted /\ Len(df) = 1) => IsNA(chart.pr_avg[7])

\* C5 amended: for a Series of one record the 7-day trailing average is that
\* record's PR when it is defined (the record lies in the window), and is
\* undefined only when that PR is undefined
C5_SingleRecordAverage ==
    (Plotted /\ Len(df) = 1) =>
        chart.pr_avg[7] = (IF IsNA(df[1].PR) THEN NaN ELSE <<df[1].PR[1], 1>>)

C5_Witness ==
    /\ Plotted
    /\ Len(df) = 1
    /\ df[1].PR = Some(700)
    /\ chart.pr_avg[7] = <<700, 1>>

\* C6: every statistic without a contributing PR value is shown as "N/A"
\* (stated for the runs in which every file yields a numeric value)
C6_UndefinedShownAsNA ==
    (Plotted /\ \A f \in files : ~Skippable(f)) =>
        /\ \A n \in AvgWindows : IsNA(chart.pr_avg[n]) => chart.avg_box[n].text = "N/A"
        /\ IsNA(chart.pr_lifetime) => chart.lifetime_box.text = "N/A"
        /\ chart.total_count = 0 => chart.annotation.text = "N/A"

RECURSIVE WindowSum(_, _, _)
\* the sum of the k values of prs that end at row i
WindowSum(prs, i, k) ==
    IF k = 0 THEN 0 ELSE prs[i][1] + WindowSum(prs, i - 1, k - 1)

\* C7: the moving average is undefined at the 0-based positions below 29; at a
\* position i >= 29 whose 30 rows i-29..i all hold a PR it is their mean,
\* whatever the dates of the rows; 35 rows of PR 50 give 50 from position 29 on
C7_MovingAverage ==
    Plotted =>
        /\ Len(chart.PR_MA_30) = Len(df)
        /\ \A i \in 1..Len(df) :
              /\ i < 30 => IsNA(chart.PR_MA_30[i])
              /\ (i >= 30 /\ \A j \in (i - 29)..i : ~IsNA(df[j].PR)) =>
                    /\ ~IsNA(chart.PR_MA_30[i])
                    /\ chart.PR_MA_30[i][2] = 30
                    /\ chart.PR_MA_30[i][1] = WindowSum(PRColumn(df), i, 30)
        /\ (Len(df) = 35 /\ \A j \in 1..35 : df[j].PR = Some(500)) =>
              \A i \in 30..35 : chart.PR_MA_30[i][1] = 500 * chart.PR_MA_30[i][2]

\* 35 rows of PR 50 with a gap of a year in the dates
C7_Witness ==
    /\ Plotted
    /\ Len(df) = 35
    /\ \A j \in 1..35 : df[j].PR = Some(500)
    /\ ToDays(df[35].Date) - ToDays(df[1].Date) > 365
    /\ IsNA(chart.PR_MA_30[29])
    /\ chart.PR_MA_30[30] = <<15000, 30>>

\* days from 2019-07-01 to a date
DaysSinceStart(date) == ToDays(date) - ToDays(<<2019, 7, 1>>)

\* C8: every row has a budget; it is 73.9 on and before 2019-07-01, 73.9 * 0.992
\* on 2020-07-02, 73.9 * 0.992^y in the y-th period of 365 days after
\* 2019-07-01, and it never rises from a row to a later one
C8_BudgetCurve ==
    Plotted =>
        /\ Len(chart.Budget_PR) = Len(df)
        /\ \A i \in 1..Len(df) :
              /\ chart.Budget_PR[i] > 0
              /\ DaysSinceStart(df[i].Date) <= 0 => chart.Budget_PR[i] = 739 * 1000 * 1000
              /\ df[i].Date = <<2020, 7, 2>> => chart.Budget_PR[i] = 739 * 992 * 1000
              /\ DaysSinceStart(df[i].Date) \in 0..364 => chart.Budget_PR[i] = 739 * 1000 * 1000
              /\ DaysSinceStart(df[i].Date) \in 365..729 => chart.Budget_PR[i] = 739 * 992 * 1000
              /\ DaysSinceStart(df[i].Date) \in 730..1094 => chart.Budget_PR[i] = 739 * 992 * 992
        /\ \A i, j \in 1..Len(df) :
              (i < j /\ DaysSinceStart(df[i].Date) >= 0) =>
                    chart.Budget_PR[j] <= chart.Budget_PR[i]

\* a Series from before 2019-07-01 to 2020-07-02 and on, a row of it without
\* PR and GHI
C8_Witness ==
    /\ Plotted
    /\ df[1].Date = <<2019, 6, 29>>
    /\ Len(df) >= 6
    /\ df[3].Date = <<2020, 7, 2>>
    /\ chart.Budget_PR[1] = 739 * 1000 * 1000
    /\ chart.Budget_PR[3] = 739 * 992 * 1000
    /\ \E i \in 1..Len(df) : IsNA(df[i].PR) /\ IsNA(df[i].GHI) /\ chart.Budget_PR[i] > 0

\* C9: total_count counts the rows with a PR, above_count those of them whose
\* PR is strictly above their own budget, so 0 <= above_count <= total_count,
\* and the ratio shown is above_count / total_count; PR 80, 70, 73.9, 60 under
\* a budget of 73.9 gives 1 of 4, a ratio of 0.25
C9_AboveBudgetRatio ==
    Plotted =>
        /\ chart.total_count = Cardinality({i \in 1..Len(df) : ~IsNA(df[i].PR)})
        /\ chart.above_count =
              Cardinality({i \in 1..Len(df) :
                              /\ ~IsNA(df[i].PR)
                              /\ df[i].PR[1] * 1000 * 1000 > chart.Budget_PR[i]})
        /\ 0 <= chart.above_count
        /\ chart.above_count <= chart.total_count
        /\ chart.total_count > 0 =>
              chart.annotation = [text |-> "ratio", above |-> chart.above_count,
                                  total |-> chart.total_count]
        /\ (/\ PRColumn(df) = <<Some(800), Some(700), Some(739), Some(600)>>
            /\ \A i \in 1..4 : chart.Budget_PR[i] = 739 * 1000 * 1000) =>
              /\ chart.above_count = 1
              /\ chart.total_count = 4
              /\ 100 * chart.above_count = 25 * chart.total_count

C9_Witness ==
    /\ Plotted
    /\ PRColumn(df) = <<Some(800), Some(700), Some(739), Some(600)>>
    /\ \A i \in 1..4 : chart.Budget_PR[i] = 739 * 1000 * 1000
    /\ chart.annotation = [text |-> "ratio", above |-> 1, total |-> 4]

\* the order of the paths
PathBefore(f, g) ==
    \/ f.folder = "PR" /\ g.folder = "GHI"
    \/ f.folder = g.folder /\ f.dir < g.dir
    \/ f.folder = g.folder /\ f.dir = g.dir /\ DateLess(f.name, g.name)

RECURSIVE InPathOrder(_)
\* the files of a set in the order of their paths
InPathOrder(fs) ==
    IF fs = {} THEN <<>>
    ELSE LET f == CHOOSE x \in fs : \A y \in fs \ {x} : PathBefore(x, y)
         IN  <<f>> \o InPathOrder(fs \ {f})

RECURSIVE MergeAll(_, _)
\* data_dict after the files of a sequence, merged in its order
MergeAll(dict, fseq) ==
    IF fseq = <<>> THEN dict ELSE MergeAll(MergeFile(dict, Head(fseq)), Tail(fseq))

\* C10: in whatever order the files are met, the returned Series is the one
\* that merging them in the order of their paths returns (stated for the runs
\* in which every file yields a numeric value)
C10_OrderIndependent ==
    (Returned /\ \A f \in files : ~Skippable(f)) =>
        df = SortByDate(Rows(MergeAll(<<>>, InPathOrder(files))))

====
